---- MODULE Spec2Model ----
(***************************************************************************)
(* Browser backup (src/tools/backup_browser.py): the configuration file,  *)
(* path discovery, the file selector, the per-application copy task, the   *)
(* worker pool of run(), the retention sweep and the run report; and the   *)
(* restore program (src/tools/restore_browser_backup.py) run after it;    *)
(* and several runs of the backup program sharing one backup root.        *)
(*                                                                         *)
(* Strings are TLA+ strings; Python's `a in b` on strings is Contains.     *)
(* One step of a worker is one iteration of a loop of backup_browser, so   *)
(* that the workers and the main thread interleave as threads do.          *)
(***************************************************************************)
EXTENDS Integers, Sequences, FiniteSets, TLC

VARIABLES
    config,         \* self.config after load_config and select_backup_options
    disk,           \* the source side of the file system: existing dirs, their files
    backups,        \* the entries of <project>/backups, this run's instance included
    dst,            \* the files under self.backup_root (this run's instance)
    pc,             \* where the main thread is in run()
    browser_paths,  \* run(): browser_paths
    futures,        \* run(): the submitted tasks, in submission order
    next_future,    \* run(): position of `for future in futures`
    task,           \* each worker task: its state and its position in backup_browser
    results,        \* run(): results
    sweep,          \* cleanup_old_backups: position of its loop
    report,         \* backup_report.json, once written
    returned,       \* what run() returned
    selLog,         \* the calls of _should_backup_file made at line 257, with their result
    walked,         \* the source files the loop of line 250 has reached
    copies,         \* the calls of shutil.copy2 of line 267, with what each did
    errors,         \* the records given to logger.error / logger.warning
    config_file,    \* config/browser_backup_config.json
    dst_dirs,       \* the directories dest.mkdir of line 235 made in the instance
    restore_pc,     \* BrowserRestore.run: where its main thread is
    source_backup,  \* BrowserRestore: self.source_backup
    browsers_to_restore,    \* BrowserRestore: self.browsers_to_restore (its keys)
    restore_paths,  \* BrowserRestore.run: browser_paths
    restore_futures,        \* BrowserRestore.run: futures, in submission order
    restore_next,   \* BrowserRestore.run: position of `for future in futures`
    restore_task,   \* each restore task: its state and its position in restore_browser
    restore_results,        \* BrowserRestore.run: results
    restore_returned,       \* what BrowserRestore.run returned
    installed,      \* the files in the live profile directories restore writes to
    runs,           \* several runs of the backup program: where each is, its backup_root
    instances       \* the instance directories of those runs: who wrote into each

\* the state of several runs of the backup program side by side
runVars == <<runs, instances>>

\* the state of the one run the other specifications follow
backupVarsOfRun == <<config, disk, backups, dst, pc, browser_paths, futures,
                     next_future, task, results, sweep, report, returned, selLog,
                     walked, copies, config_file, dst_dirs>>

\* the state of the restore program (src/tools/restore_browser_backup.py)
restoreVars == <<restore_pc, source_backup, browsers_to_restore, restore_paths,
                 restore_futures, restore_next, restore_task, restore_results,
                 restore_returned, installed>>

vars == <<config, disk, backups, dst, pc, browser_paths, futures, next_future,
          task, results, sweep, report, returned, selLog, walked, copies, errors,
          config_file, dst_dirs, restoreVars, runVars>>

----------------------------------------------------------------------------
(* Bounds of the model *)

\* most files in the source trees of one run (the copy-engine specification)
MaxFiles == 2
\* largest max_workers a configuration sets (the scheduler specification)
MaxWorkers == 2
\* most entries of the backup root beside this run's instance (the retention
\* specification)
MaxEntries == 2
\* most runs of the backup program side by side (the instances specification)
MaxRuns == 2
\* the last second of the clock of those runs
MaxSeconds == 1

----------------------------------------------------------------------------
(* Strings *)

\* Python: sub in s
Contains(sub, s) ==
    \E i \in 1..(Len(s) - Len(sub) + 1) : SubSeq(s, i, i + Len(sub) - 1) = sub

\* Python: s.endswith(suffix)
EndsWith(s, suffix) ==
    /\ Len(s) >= Len(suffix)
    /\ SubSeq(s, Len(s) - Len(suffix) + 1, Len(s)) = suffix

LowerChar(c) ==
    CASE c = "A" -> "a" [] c = "B" -> "b" [] c = "C" -> "c" [] c = "D" -> "d"
      [] c = "E" -> "e" [] c = "F" -> "f" [] c = "G" -> "g" [] c = "H" -> "h"
      [] c = "I" -> "i" [] c = "J" -> "j" [] c = "K" -> "k" [] c = "L" -> "l"
      [] c = "M" -> "m" [] c = "N" -> "n" [] c = "O" -> "o" [] c = "P" -> "p"
      [] c = "Q" -> "q" [] c = "R" -> "r" [] c = "S" -> "s" [] c = "T" -> "t"
      [] c = "U" -> "u" [] c = "V" -> "v" [] c = "W" -> "w" [] c = "X" -> "x"
      [] c = "Y" -> "y" [] c = "Z" -> "z" [] OTHER -> c

RECURSIVE Lower(_)
\* Python: s.lower()
Lower(s) ==
    IF Len(s) = 0 THEN ""
    ELSE LowerChar(SubSeq(s, 1, 1)) \o Lower(SubSeq(s, 2, Len(s)))

\* pathlib: rel_path / file, as a string; the walk root itself is "."
JoinRel(dir, file) == IF dir = "" THEN file ELSE dir \o "/" \o file

----------------------------------------------------------------------------
(* Configuration *)

Categories ==
    {"bookmarks", "history", "passwords", "extensions", "cookies", "preferences"}

default_excluded_files == {".lock", "Cache", "GPUCache", "CacheDictionary"}

default_retention_days == 30

default_max_workers == 4

default_backup_options == [c \in Categories |-> TRUE]

\* time.time() and st_mtime count seconds: retention_days * 24 * 60 * 60
RetentionSeconds(cfg) == cfg.retention_days * 24 * 60 * 60

----------------------------------------------------------------------------
(* The file selector *)

_get_browser_data_patterns ==
    [chrome_based |->
        [bookmarks   |-> <<"Bookmarks", "Bookmarks.bak">>,
         history     |-> <<"History", "Visited Links">>,
         passwords   |-> <<"Login Data", "Login Data-journal">>,
         extensions  |-> <<"Extensions/*">>,
         cookies     |-> <<"Cookies", "Cookies-journal">>,
         preferences |-> <<"Preferences", "Secure Preferences">>],
     firefox |->
        [bookmarks   |-> <<"places.sqlite", "bookmarkbackups/*">>,
         history     |-> <<"places.sqlite", "places.sqlite-wal">>,
         passwords   |-> <<"logins.json", "key4.db">>,
         extensions  |-> <<"extensions/*", "extensions.json">>,
         cookies     |-> <<"cookies.sqlite">>,
         preferences |-> <<"prefs.js", "user.js">>],
     opera |->
        [bookmarks   |-> <<"Bookmarks", "Bookmarks.bak">>,
         history     |-> <<"History", "Visited Links">>,
         passwords   |-> <<"Login Data", "Login Data-journal">>,
         extensions  |-> <<"Extensions/*">>,
         cookies     |-> <<"Cookies", "Cookies-journal">>,
         preferences |-> <<"Preferences">>],
     operagx |->
        [bookmarks   |-> <<"Bookmarks", "Bookmarks.bak">>,
         history     |-> <<"History", "Visited Links">>,
         passwords   |-> <<"Login Data", "Login Data-journal">>,
         extensions  |-> <<"Extensions/*">>,
         cookies     |-> <<"Cookies", "Cookies-journal">>,
         preferences |-> <<"Preferences", "GX Settings">>]]

browser_family(browser_type) ==
    IF Contains("firefox", Lower(browser_type)) THEN "firefox"
    ELSE IF Contains("opera", Lower(browser_type)) THEN "opera"
    ELSE "chrome_based"

\* lines 403-407: one pattern against the file name
PatternMatches(pattern, file_name) ==
    IF EndsWith(pattern, "/*")
    THEN Contains(SubSeq(pattern, 1, Len(pattern) - 2), file_name)
    ELSE Contains(pattern, file_name)

\* the selector without the early return of line 394
_should_backup_file_NoFailOpen(file_name, browser_type, backup_options) ==
    LET patterns == _get_browser_data_patterns
        family == browser_family(browser_type)
    IN  \E data_type \in DOMAIN backup_options \cap DOMAIN patterns[family] :
           /\ backup_options[data_type]
           /\ \E i \in 1..Len(patterns[family][data_type]) :
                 PatternMatches(patterns[family][data_type][i], file_name)

\* lines 383-408, for the calls that return. The loop of line 397 visits the
\* mapping in the order of the file; a key the table of patterns lacks is
\* taken as listed after the categories, so that the categories are tried
\* first (SelectorRaises is the rest of the loop).
_should_backup_file(file_name, browser_type, backup_options) ==
    LET patterns == _get_browser_data_patterns
        family == browser_family(browser_type)
    IN  IF ~(\E o \in DOMAIN backup_options : backup_options[o])
        THEN TRUE
        ELSE \E data_type \in DOMAIN backup_options \cap DOMAIN patterns[family] :
                /\ backup_options[data_type]
                /\ \E i \in 1..Len(patterns[family][data_type]) :
                      PatternMatches(patterns[family][data_type][i], file_name)

\* line 401: patterns[browser_family][data_type] raises KeyError when the
\* loop reaches an enabled key that the table of patterns lacks, which it
\* does when no pattern of an enabled category has matched
SelectorRaises(file_name, browser_type, backup_options) ==
    LET patterns == _get_browser_data_patterns
        family == browser_family(browser_type)
    IN  /\ \E o \in DOMAIN backup_options \ DOMAIN patterns[family] :
              backup_options[o]
        /\ ~\E data_type \in DOMAIN backup_options \cap DOMAIN patterns[family] :
               /\ backup_options[data_type]
               /\ \E i \in 1..Len(patterns[family][data_type]) :
                     PatternMatches(patterns[family][data_type][i], file_name)

\* the exclusion test comparing whole names instead of substrings
IsExcluded_WholeName(file, excluded_files) == file \in excluded_files

\* lines 251-254 (and 202-204): the exclusion test
IsExcluded(file, excluded_files) ==
    \E excluded \in excluded_files : Contains(excluded, file)

----------------------------------------------------------------------------
(* Path discovery *)

Home == "/home/u"

\* _get_linux_paths: three applications of the table, one of each pattern
\* family, chrome with its two candidate directories
LinuxTable ==
    [chrome  |-> <<Home \o "/.config/google-chrome", Home \o "/.config/chromium">>,
     firefox |-> <<Home \o "/.mozilla/firefox">>,
     operagx |-> <<Home \o "/.config/opera-gx">>]

\* the keys of the table in the order the dict literal lists them
TableOrder == <<"chrome", "firefox", "operagx">>

Browsers == DOMAIN LinuxTable

AllRoots == UNION {{LinuxTable[b][i] : i \in 1..Len(LinuxTable[b])} : b \in Browsers}

\* pathlib: Path(p).name, what follows the last separator
Basename(p) ==
    LET seps == {i \in 1..Len(p) : SubSeq(p, i, i) = "/"}
    IN  IF seps = {} THEN p
        ELSE SubSeq(p, (CHOOSE i \in seps : \A j \in seps : j <= i) + 1, Len(p))

RECURSIVE FilterSeq(_, _)
\* [x for x in s if x in keep]
FilterSeq(s, keep) ==
    IF s = <<>> THEN <<>>
    ELSE IF Head(s) \in keep THEN <<Head(s)>> \o FilterSeq(Tail(s), keep)
    ELSE FilterSeq(Tail(s), keep)

\* {k: [str(p) for p in v if p.exists()] for k, v in paths.items()}
_get_linux_paths(d) ==
    [b \in Browsers |-> FilterSeq(LinuxTable[b], d.exists)]

\* every application of the table taken for enabled
BrowserEnabled_Always(cfg, browser) == TRUE

\* self.config["browsers"].get(browser, True)
BrowserEnabled(cfg, browser) ==
    IF browser \in DOMAIN cfg.browsers THEN cfg.browsers[browser] ELSE TRUE

\* the validation dropping an application left with no directory
_validate_paths_DropEmpty(paths, cfg, d) ==
    LET kept == [browser \in {b \in DOMAIN paths : BrowserEnabled(cfg, b)} |->
                    FilterSeq(paths[browser],
                              {path \in d.exists : ~IsExcluded(path, cfg.excluded_files)})]
    IN  [browser \in {b \in DOMAIN kept : Len(kept[b]) > 0} |-> kept[browser]]

_validate_paths(paths, cfg, d) ==
    [browser \in {b \in DOMAIN paths : BrowserEnabled(cfg, b)} |->
        FilterSeq(paths[browser],
                  {path \in d.exists : ~IsExcluded(path, cfg.excluded_files)})]

\* %LOCALAPPDATA% and %APPDATA%, with "/" for the separator
AppData == "C:/Users/u/AppData/Local"

Roaming == "C:/Users/u/AppData/Roaming"

\* _get_windows_paths: the same three applications
WindowsTable ==
    [chrome  |-> <<AppData \o "/Google/Chrome/User Data">>,
     firefox |-> <<Roaming \o "/Mozilla/Firefox/Profiles">>,
     operagx |-> <<Roaming \o "/Opera Software/Opera GX Stable">>]

WindowsRoots == {WindowsTable[b][1] : b \in Browsers}

_get_windows_paths(d) ==
    [b \in Browsers |-> FilterSeq(WindowsTable[b], d.exists)]

\* lines 90-100: the table of platform.system(), none on another system
get_browser_paths(cfg, d) ==
    _validate_paths(IF d.system = "Windows" THEN _get_windows_paths(d)
                    ELSE IF d.system = "Linux" THEN _get_linux_paths(d)
                    ELSE <<>>,
                    cfg, d)

----------------------------------------------------------------------------
(* The copy task: backup_browser *)

\* hashlib.sha256(...).hexdigest(): equal digests iff equal contents
Sha256(content) == <<"sha256", content>>

\* what the copy of one file can do: shutil.copy2 returns and the destination
\* holds the source's bytes ("ok"), returns and the destination differs
\* ("corrupt"), raises ("raise"); or the copy is fine and verify_copy cannot
\* read the files back ("unreadable")
CopyOutcomes == {"ok", "corrupt", "raise", "unreadable"}

CorruptContent == "corrupt"

\* verify_copy, lines 208-221, given what the two reads return
verify_copy(cfg, outcome, src_content, dst_content) ==
    IF ~cfg.verify_copies THEN TRUE
    ELSE IF outcome = "unreadable" THEN FALSE
    ELSE Sha256(src_content) = Sha256(dst_content)

\* the destination without the application's own directory
DstPath_NoBrowser(browser, source, dir, file) ==
    Basename(source) \o "/" \o JoinRel(dir, file)

\* str(dst_file) relative to <backups>/<timestamp>:
\* browser_name / source.name / rel_path / file
DstPath(browser, source, dir, file) ==
    browser \o "/" \o Basename(source) \o "/" \o JoinRel(dir, file)

SrcId(browser, source, f) ==
    [browser |-> browser, source |-> source, dir |-> f.dir, name |-> f.name]

Running == {b \in Browsers : task[b].st = "running"}

\* the position after the files of root number r are done: the next root, or
\* `return success` when that was the last one
AfterRoot(t, r, n_roots) ==
    IF r + 1 > n_roots
    THEN [t EXCEPT !.st = "returned", !.root = r + 1, !.pos = 0]
    ELSE [t EXCEPT !.root = r + 1, !.pos = 0]

\* the copy loop without its inner try: the first failed copy ends the task
OnCopyError_Abort(t, moved) == [t EXCEPT !.st = "returned"]

\* lines 271-272: the handler of the inner try logs and the loop goes on
OnCopyError(t, moved) == moved

\* success set by every copy that returned, verified or not
SuccessAfter_Unverified(success, verified) == TRUE

\* lines 268-269: if self.verify_copy(src_file, dst_file): success = True
SuccessAfter(success, verified) == IF verified THEN TRUE ELSE success

\* line 234-235: dest = backup_root / browser_name / source.name, made with
\* its parents
DestDirs(browser, source) == {browser, browser \o "/" \o Basename(source)}

\* a worker thread takes the oldest pending work item of the pool's queue
TaskStart(b) ==
    /\ task[b].st = "pending"
    /\ Cardinality(Running) < config.max_workers
    /\ \A i \in 1..Len(futures) :
          task[futures[i]].st = "pending" =>
             \A j \in 1..Len(futures) : futures[j] = b => j <= i
    /\ task' = [task EXCEPT ![b] =
                  IF Len(browser_paths[b]) = 0
                  THEN [@ EXCEPT !.st = "returned"]
                  ELSE [@ EXCEPT !.st = "running", !.root = 1, !.pos = 0]]
    /\ UNCHANGED <<config_file, dst_dirs, restoreVars, runVars>>
    /\ UNCHANGED <<config, disk, backups, dst, pc, browser_paths, futures,
                   next_future, results, sweep, report, returned, selLog,
                   walked, copies, errors>>

\* lines 238-243: the count of the files to back up calls the selector with
\* the bare name of every file of the tree, excluded or not
CountRaises(b, source) ==
    \E i \in 1..Len(disk.files[source]) :
       SelectorRaises(disk.files[source][i].name, b, config.backup_options)

\* lines 229-243: the next source root; dest.mkdir may fail, which the outer
\* handler of line 274 logs before `return success`, unless the handler
\* itself raises: that exception leaves backup_browser. A KeyError of the
\* selector during the count of lines 238-243 goes to the same handler. The
\* call of line 257 cannot raise after the count has passed: a path that no
\* pattern matches ends in a name that no pattern matches.
TaskEnterRoot(b) ==
    /\ task[b].st = "running"
    /\ task[b].pos = 0
    /\ LET t == task[b]
           source == browser_paths[b][t.root]
           n_roots == Len(browser_paths[b])
       IN  IF source \notin disk.exists
           THEN /\ task' = [task EXCEPT ![b] = AfterRoot(t, t.root, n_roots)]
                /\ UNCHANGED <<errors, dst_dirs>>
           ELSE \E mkdir_ok \in BOOLEAN :
                   IF mkdir_ok
                   THEN /\ dst_dirs' = dst_dirs \cup DestDirs(b, source)
                        /\ IF CountRaises(b, source)
                           THEN /\ task' = [task EXCEPT ![b].st = "returned"]
                                /\ errors' = errors \cup
                                      {[at |-> "backup_browser", browser |-> b,
                                        file |-> "KeyError"]}
                           ELSE /\ task' = [task EXCEPT ![b] =
                                      IF Len(disk.files[source]) = 0
                                      THEN AfterRoot(t, t.root, n_roots)
                                      ELSE [t EXCEPT !.pos = 1]]
                                /\ UNCHANGED errors
                   ELSE \E handler_ok \in BOOLEAN :
                           IF handler_ok
                           THEN /\ task' = [task EXCEPT ![b].st = "returned"]
                                /\ errors' = errors \cup
                                      {[at |-> "backup_browser", browser |-> b,
                                        file |-> Basename(source)]}
                                /\ UNCHANGED dst_dirs
                           ELSE /\ task' = [task EXCEPT ![b].st = "raised"]
                                /\ UNCHANGED <<errors, dst_dirs>>
    /\ UNCHANGED <<config_file, restoreVars, runVars>>
    /\ UNCHANGED <<config, disk, backups, dst, pc, browser_paths, futures,
                   next_future, results, sweep, report, returned, selLog,
                   walked, copies>>

\* lines 250-272: one iteration of `for file in files`
TaskCopyFile(b) ==
    /\ task[b].st = "running"
    /\ task[b].pos >= 1
    /\ LET t == task[b]
           source == browser_paths[b][t.root]
           files == disk.files[source]
           f == files[t.pos]
           n_roots == Len(browser_paths[b])
           rel == JoinRel(f.dir, f.name)
           selected == _should_backup_file(rel, b, config.backup_options)
           moved == IF t.pos + 1 > Len(files)
                    THEN AfterRoot(t, t.root, n_roots)
                    ELSE [t EXCEPT !.pos = t.pos + 1]
           path == DstPath(b, source, f.dir, f.name)
       IN  /\ walked' = walked \cup {SrcId(b, source, f)}
           /\ IF IsExcluded(f.name, config.excluded_files)
              THEN /\ task' = [task EXCEPT ![b] = moved]
                   /\ UNCHANGED <<dst, selLog, copies, errors>>
              ELSE /\ selLog' = selLog \cup
                         {[file_name |-> rel, browser_type |-> b, result |-> selected]}
                   /\ IF ~selected
                      THEN /\ task' = [task EXCEPT ![b] = moved]
                           /\ UNCHANGED <<dst, copies, errors>>
                      ELSE \E outcome \in CopyOutcomes :
                              /\ outcome = "unreadable" => config.verify_copies
                              /\ copies' = copies \cup
                                    {[src |-> SrcId(b, source, f), outcome |-> outcome]}
                              /\ IF outcome = "raise"
                                 THEN /\ errors' = errors \cup
                                           {[at |-> "copy", browser |-> b, file |-> f.name]}
                                      /\ task' = [task EXCEPT ![b] = OnCopyError(t, moved)]
                                      /\ UNCHANGED dst
                                 ELSE LET written == IF outcome = "corrupt"
                                                     THEN CorruptContent
                                                     ELSE f.content
                                          verified == verify_copy(config, outcome,
                                                                  f.content, written)
                                      IN  /\ dst' = {e \in dst : e.path # path} \cup
                                                 {[path |-> path, content |-> written]}
                                          /\ errors' = IF outcome = "unreadable"
                                                       THEN errors \cup
                                                            {[at |-> "verify_copy",
                                                              browser |-> b,
                                                              file |-> f.name]}
                                                       ELSE errors
                                          /\ task' = [task EXCEPT ![b] =
                                                [moved EXCEPT !.success =
                                                     SuccessAfter(t.success, verified)]]
    /\ UNCHANGED <<config_file, dst_dirs, restoreVars, runVars>>
    /\ UNCHANGED <<config, disk, backups, pc, browser_paths, futures,
                   next_future, results, sweep, report, returned>>

\* an exception raised before the try of line 228 is entered (lines 225-226)
\* leaves backup_browser: the future holds it, line 320 re-raises it
TaskFault(b) ==
    /\ task[b].st = "running"
    /\ task[b].root = 1
    /\ task[b].pos = 0
    /\ task' = [task EXCEPT ![b].st = "raised"]
    /\ UNCHANGED <<config_file, dst_dirs, restoreVars, runVars>>
    /\ UNCHANGED <<config, disk, backups, dst, pc, browser_paths, futures,
                   next_future, results, sweep, report, returned, selLog,
                   walked, copies, errors>>

----------------------------------------------------------------------------
(* The main thread: run, cleanup_old_backups, _save_backup_report *)

\* the name _create_backup_dir gave this run's instance
OwnInstance == "20261104_083000"

IsDone(t) == t.st \in {"returned", "raised"}

NewTask == [st |-> "pending", root |-> 0, pos |-> 0, success |-> FALSE]

NoTask == [st |-> "none", root |-> 0, pos |-> 0, success |-> FALSE]

\* lines 305-314: discovery, the early return, the submission of one task per
\* key of browser_paths
RunStart ==
    /\ pc = "start"
    /\ LET bp == get_browser_paths(config, disk)
       IN  IF DOMAIN bp = {}
           THEN /\ errors' = errors \cup
                      {[at |-> "run", browser |-> "", file |-> "No browser profiles found"]}
                /\ returned' = "None"
                /\ pc' = "done"
                /\ UNCHANGED <<browser_paths, futures, task>>
           ELSE /\ browser_paths' = bp
                /\ futures' = FilterSeq(TableOrder, DOMAIN bp)
                /\ task' = [b \in Browsers |->
                              IF b \in DOMAIN bp THEN NewTask ELSE NoTask]
                /\ pc' = "collect"
                /\ UNCHANGED <<errors, returned>>
    /\ UNCHANGED <<config_file, dst_dirs, restoreVars, runVars>>
    /\ UNCHANGED <<config, disk, backups, dst, next_future, results, sweep,
                   report, selLog, walked, copies>>

\* reading the future without waiting for it
FutureReady_NoWait(t) == TRUE

\* future.result() of line 320: blocks until the task is done, then returns
\* its value or re-raises its exception
FutureReady(t) == IsDone(t)

\* the task's success flag whatever the future holds
ResultOf_Flag(t) == t.success

\* lines 319-323: the value the task returned, False when it raised
ResultOf(t) == IF t.st = "returned" THEN t.success ELSE FALSE

\* the handler of line 321 logging without recording
RecordResult_SkipRaised(res, browser, t) ==
    IF t.st = "raised" THEN res
    ELSE [b \in DOMAIN res \cup {browser} |->
            IF b = browser THEN t.success ELSE res[b]]

\* results[browser] = ..., in both branches of the try of line 319
RecordResult(res, browser, t) ==
    [b \in DOMAIN res \cup {browser} |->
        IF b = browser THEN ResultOf(t) ELSE res[b]]

\* lines 317-323: one iteration of `for future in futures`; after the last one
\* the pool is shut down and the sweep starts
RunCollect ==
    /\ pc = "collect"
    /\ next_future <= Len(futures)
    /\ LET browser == futures[next_future]
           t == task[browser]
       IN  /\ FutureReady(t)
           /\ results' = RecordResult(results, browser, t)
           /\ errors' = IF t.st = "raised"
                        THEN errors \cup
                             {[at |-> "future", browser |-> browser, file |-> ""]}
                        ELSE errors
    /\ next_future' = next_future + 1
    /\ pc' = IF next_future + 1 > Len(futures) THEN "cleanup" ELSE "collect"
    /\ UNCHANGED <<config_file, dst_dirs, restoreVars, runVars>>
    /\ UNCHANGED <<config, disk, backups, dst, browser_paths, futures, task,
                   sweep, report, returned, selLog, walked, copies>>

\* the age test taking the threshold itself for expired
Expired_AtThreshold(entry, cfg) == entry.age >= RetentionSeconds(cfg)

\* line 293
Expired(entry, cfg) == entry.age > RetentionSeconds(cfg)

\* where the main thread is after the entry at position i of the listing:
\* the loop of line 290 ends with the listing
AfterEntry(i) == IF i + 1 > Len(backups) THEN "report" ELSE "cleanup"

\* lines 290-298: one iteration of `for backup_dir in backup_root.iterdir()`
\* (the listing holds this run's instance, so it is never empty);
\* shutil.rmtree may raise, which the handler of line 297 catches outside the
\* loop
RunCleanup ==
    /\ pc = "cleanup"
    /\ sweep <= Len(backups)
    /\ LET entry == backups[sweep]
       IN  IF entry.present /\ entry.is_dir /\ Expired(entry, config)
           THEN \E rmtree_ok \in BOOLEAN :
                   IF rmtree_ok
                   THEN /\ backups' = [backups EXCEPT ![sweep].present = FALSE]
                        /\ dst' = IF entry.name = OwnInstance THEN {} ELSE dst
                        /\ dst_dirs' = IF entry.name = OwnInstance THEN {} ELSE dst_dirs
                        /\ sweep' = sweep + 1
                        /\ pc' = AfterEntry(sweep)
                        /\ UNCHANGED errors
                   ELSE /\ errors' = errors \cup
                              {[at |-> "cleanup_old_backups", browser |-> "",
                                file |-> entry.name]}
                        /\ pc' = "report"
                        /\ UNCHANGED <<backups, dst, dst_dirs, sweep>>
           ELSE /\ sweep' = sweep + 1
                /\ pc' = AfterEntry(sweep)
                /\ UNCHANGED <<backups, dst, dst_dirs, errors>>
    /\ UNCHANGED <<config_file, restoreVars, runVars>>
    /\ UNCHANGED <<config, disk, browser_paths, futures, next_future, task,
                   results, report, returned, selLog, walked, copies>>

InstancePresent ==
    \E i \in 1..Len(backups) : backups[i].name = OwnInstance /\ backups[i].present

\* lines 326-332 and 334-344: the report is written into the instance
\* directory; open() raises when that directory is gone
RunReport ==
    /\ pc = "report"
    /\ IF InstancePresent
       THEN /\ report' = [written |-> TRUE, backup_location |-> OwnInstance,
                          results |-> results]
            /\ returned' = "True"
            /\ UNCHANGED errors
       ELSE /\ errors' = errors \cup
                  {[at |-> "run", browser |-> "", file |-> "Backup process failed"]}
            /\ returned' = "False"
            /\ UNCHANGED report
    /\ pc' = "done"
    /\ UNCHANGED <<config_file, dst_dirs, restoreVars, runVars>>
    /\ UNCHANGED <<config, disk, backups, dst, browser_paths, futures,
                   next_future, task, results, sweep, selLog, walked, copies>>

\* main, lines 434-439: what is printed for the value run() returned
MainMessage(ret) ==
    IF ret = "True" THEN "Backup completed successfully!"
    ELSE "Backup completed with errors. Check the logs for details."

----------------------------------------------------------------------------
(* The restore program: src/tools/restore_browser_backup.py *)

\* the state of the backup program that the restore program leaves alone
backupVars == <<config, disk, backups, dst, pc, browser_paths, futures,
                next_future, task, results, sweep, report, returned, selLog,
                walked, copies, config_file, dst_dirs, runVars>>

\* lines 111-119: one live directory per application
RestoreTable ==
    [chrome  |-> AppData \o "/Google/Chrome/User Data",
     firefox |-> Roaming \o "/Mozilla/Firefox/Profiles",
     operagx |-> Roaming \o "/Opera Software/Opera GX Stable"]

\* BrowserRestore.get_browser_paths: a table for Windows only, of which the
\* directories that exist are kept
restore_get_browser_paths(system, live) ==
    IF system = "Windows"
    THEN [b \in {x \in Browsers : RestoreTable[x] \in live} |-> RestoreTable[b]]
    ELSE <<>>

\* lines 72-76: the directories of the chosen backup
available_browsers == dst_dirs \cap Browsers

\* path lies under the directory base
IsUnder(base, path) ==
    /\ Len(path) > Len(base) + 1
    /\ SubSeq(path, 1, Len(base) + 1) = base \o "/"

\* src_file.relative_to(source_path)
RelativeTo(path, base) == SubSeq(path, Len(base) + 2, Len(path))

RECURSIVE SeqOf(_)
\* the elements of a set in the one order the directory walk lists them
SeqOf(S) ==
    IF S = {} THEN <<>>
    ELSE LET x == CHOOSE y \in S : TRUE
         IN  <<x>> \o SeqOf(S \ {x})

\* line 137: the regular files source_path.rglob("*") lists, source_path
\* being <source_backup>/<browser>
RestoreFiles(browser) == SeqOf({e \in dst : IsUnder(browser, e.path)})

\* lines 158-183: the backup and the applications the user selects, the
\* discovery of the live directories, the submission of one task per selected
\* application that has one
RestoreStart ==
    /\ restore_pc = "start"
    /\ pc = "done"
    /\ IF ~InstancePresent
       THEN /\ restore_returned' = "False"
            /\ restore_pc' = "done"
            /\ UNCHANGED <<source_backup, browsers_to_restore, restore_paths,
                           restore_futures, restore_task>>
       ELSE /\ source_backup' = OwnInstance
            /\ \E selection \in SUBSET available_browsers :
                  /\ browsers_to_restore' = selection
                  /\ IF selection = {}
                     THEN /\ restore_returned' = "False"
                          /\ restore_pc' = "done"
                          /\ UNCHANGED <<restore_paths, restore_futures, restore_task>>
                     ELSE \E live \in SUBSET disk.exists :
                             LET bp == restore_get_browser_paths(disk.system, live)
                                 submitted == selection \cap DOMAIN bp
                             IN  /\ restore_paths' = bp
                                 /\ restore_futures' = FilterSeq(TableOrder, submitted)
                                 /\ restore_task' =
                                       [b \in Browsers |->
                                           IF b \in submitted THEN NewTask ELSE NoTask]
                                 /\ restore_pc' = "collect"
                                 /\ UNCHANGED restore_returned
    /\ UNCHANGED <<restore_next, restore_results, installed, errors>>
    /\ UNCHANGED backupVars

\* a worker of the pool of line 172 takes the task; restore_browser goes up
\* to its loop, or through it when the backup holds no file
RestoreTaskStart(b) ==
    /\ restore_task[b].st = "pending"
    /\ restore_task' = [restore_task EXCEPT ![b] =
                          IF Len(RestoreFiles(b)) = 0
                          THEN [@ EXCEPT !.st = "returned", !.success = TRUE]
                          ELSE [@ EXCEPT !.st = "running", !.pos = 1]]
    /\ UNCHANGED <<restore_pc, source_backup, browsers_to_restore, restore_paths,
                   restore_futures, restore_next, restore_results,
                   restore_returned, installed, errors>>
    /\ UNCHANGED backupVars

\* the restore loop without its inner try: the first failed copy ends the
\* task in the outer handler
OnRestoreError_Abort(t, moved) == [t EXCEPT !.st = "returned", !.success = FALSE]

\* lines 146-147: the handler of the inner try logs and the loop goes on
OnRestoreError(t, moved) == moved

\* restore_browser returning False after its loop
ReturnAfterLoop_False(t) == [t EXCEPT !.st = "returned", !.success = FALSE]

\* line 149: `return True` once the loop of lines 137-147 is over
ReturnAfterLoop(t) == [t EXCEPT !.st = "returned", !.success = TRUE]

\* lines 137-149: one iteration of the loop of restore_browser; `return True`
\* after the last one
RestoreCopyFile(b) ==
    /\ restore_task[b].st = "running"
    /\ LET t == restore_task[b]
           files == RestoreFiles(b)
           e == files[t.pos]
           rel_path == RelativeTo(e.path, b)
           dst_file == restore_paths[b] \o "/" \o rel_path
           moved == IF t.pos + 1 > Len(files)
                    THEN ReturnAfterLoop(t)
                    ELSE [t EXCEPT !.pos = t.pos + 1]
       IN  \E copied \in BOOLEAN :
              IF copied
              THEN /\ installed' = {x \in installed : x.path # dst_file} \cup
                                   {[path |-> dst_file, content |-> e.content]}
                   /\ restore_task' = [restore_task EXCEPT ![b] = moved]
                   /\ UNCHANGED errors
              ELSE /\ errors' = errors \cup
                         {[at |-> "restore_copy", browser |-> b, file |-> e.path]}
                   /\ restore_task' = [restore_task EXCEPT ![b] = OnRestoreError(t, moved)]
                   /\ UNCHANGED installed
    /\ UNCHANGED <<restore_pc, source_backup, browsers_to_restore, restore_paths,
                   restore_futures, restore_next, restore_results, restore_returned>>
    /\ UNCHANGED backupVars

\* lines 129-134 and 150-152: an exception outside the inner try (the walk
\* that counts the files fails) is logged and restore_browser returns False
RestoreTaskFault(b) ==
    /\ restore_task[b].st = "running"
    /\ restore_task[b].pos = 1
    /\ restore_task' = [restore_task EXCEPT ![b].st = "returned", ![b].success = FALSE]
    /\ errors' = errors \cup {[at |-> "restore_browser", browser |-> b, file |-> ""]}
    /\ UNCHANGED <<restore_pc, source_backup, browsers_to_restore, restore_paths,
                   restore_futures, restore_next, restore_results,
                   restore_returned, installed>>
    /\ UNCHANGED backupVars

\* lines 185-191: one iteration of `for future in futures`
RestoreCollect ==
    /\ restore_pc = "collect"
    /\ restore_next <= Len(restore_futures)
    /\ LET browser == restore_futures[restore_next]
           t == restore_task[browser]
       IN  /\ IsDone(t)
           /\ restore_results' =
                 [b \in DOMAIN restore_results \cup {browser} |->
                     IF b = browser THEN t.success ELSE restore_results[b]]
    /\ restore_next' = restore_next + 1
    /\ UNCHANGED <<restore_pc, source_backup, browsers_to_restore, restore_paths,
                   restore_futures, restore_task, restore_returned, installed,
                   errors>>
    /\ UNCHANGED backupVars

\* line 193: return all(results.values())
RestoreReturn ==
    /\ restore_pc = "collect"
    /\ restore_next > Len(restore_futures)
    /\ restore_returned' =
          IF \A b \in DOMAIN restore_results : restore_results[b]
          THEN "True" ELSE "False"
    /\ restore_pc' = "done"
    /\ UNCHANGED <<source_backup, browsers_to_restore, restore_paths,
                   restore_futures, restore_next, restore_task, restore_results,
                   installed, errors>>
    /\ UNCHANGED backupVars

\* a configuration file that load_config read as the given configuration
FileOf(cfg) == [kind |-> "json", value |-> cfg]

\* this run's instance in the backup root; its directory was last modified a
\* second before the sweep reads the clock
OwnEntry == [name |-> OwnInstance, is_dir |-> TRUE, present |-> TRUE, age |-> 1]

----------------------------------------------------------------------------
(* Construction: load_config, _create_backup_dir, select_backup_options *)

\* lines 42-64
default_config ==
    [max_workers    |-> default_max_workers,
     verify_copies  |-> TRUE,
     compression    |-> TRUE,
     retention_days |-> default_retention_days,
     excluded_files |-> default_excluded_files,
     browsers       |-> [chrome |-> TRUE, firefox |-> TRUE, edge |-> TRUE,
                         brave |-> TRUE, opera |-> TRUE, vivaldi |-> TRUE],
     backup_options |-> default_backup_options]

\* self.config before load_config has set it
NoConfig == <<>>

\* {**a, **b}: the keys of both, b's value where both have the key
Merge(a, b) ==
    [k \in DOMAIN a \cup DOMAIN b |-> IF k \in DOMAIN b THEN b[k] ELSE a[k]]

\* load_config without the fallback of lines 75-77: no configuration is set
load_config_NoFallback(file) ==
    IF file.kind = "json" THEN Merge(default_config, file.value)
    ELSE NoConfig

\* lines 66-77: the configuration load_config sets, given the file: absent,
\* a JSON object, or text that json.load or the merge cannot take
load_config(file) ==
    IF file.kind = "json" THEN Merge(default_config, file.value)
    ELSE default_config

\* BrowserBackup(): load_config, which writes the defaults when there is no
\* file and logs when the file cannot be loaded, then _create_backup_dir
Construct ==
    /\ pc = "construct"
    /\ config' = load_config(config_file)
    /\ config_file' = IF config_file.kind = "absent" THEN FileOf(default_config)
                      ELSE config_file
    /\ errors' = IF config_file.kind = "malformed"
                 THEN errors \cup {[at |-> "load_config", browser |-> "", file |-> ""]}
                 ELSE errors
    /\ backups' = Append(backups, OwnEntry)
    /\ pc' = "select"
    /\ UNCHANGED <<disk, dst, browser_paths, futures, next_future, task,
                   results, sweep, report, returned, selLog, walked, copies,
                   dst_dirs, restoreVars, runVars>>

\* lines 410-429: "1" and any invalid choice set every option the mapping
\* holds, "2" sets each of them to the user's answer
select_backup_options ==
    /\ pc = "select"
    /\ \E choice \in {"1", "2", "3"} :
          IF choice = "2"
          THEN \E answers \in [DOMAIN config.backup_options -> BOOLEAN] :
                  config' = [config EXCEPT !.backup_options = answers]
          ELSE config' = [config EXCEPT !.backup_options =
                             [option \in DOMAIN config.backup_options |-> TRUE]]
    /\ pc' = "start"
    /\ UNCHANGED <<disk, backups, dst, browser_paths, futures, next_future,
                   task, results, sweep, report, returned, selLog, walked,
                   copies, errors, config_file, dst_dirs, restoreVars, runVars>>

\* how lines 394-400 read the mapping: a category is enabled when the mapping
\* holds it with a true value
OptionEnabled(cfg, data_type) ==
    /\ data_type \in DOMAIN cfg.backup_options
    /\ cfg.backup_options[data_type]

----------------------------------------------------------------------------
(* Several runs of the program: _create_backup_dir, the writes into the
   instance, _save_backup_report *)

\* what datetime.now() returns: a second of the minute 08:30 of the day, and
\* the half of it (its microseconds)
Instants == [sec : 0..MaxSeconds, half : 0..1]

Earlier(t1, t2) == t1.sec * 2 + t1.half < t2.sec * 2 + t2.half

\* %S of strftime: the second in two digits
Pad2(n) == IF n < 10 THEN "0" \o ToString(n) ELSE ToString(n)

\* line 83: datetime.now().strftime("%Y%m%d_%H%M%S")
Timestamp(t) == "20261104_0830" \o Pad2(t.sec)

NewRun == [pc |-> "new", started |-> [sec |-> 0, half |-> 0], backup_root |-> ""]

NoInstance == [files |-> {}, report |-> 0]

\* lines 79-86: run r is constructed at an instant later than the ones the
\* runs before it were constructed at; mkdir(parents=True, exist_ok=True)
\* makes the directory or takes the one that is there
_create_backup_dir(r) ==
    /\ runs[r].pc = "new"
    /\ \E now \in Instants :
          /\ \A q \in DOMAIN runs : runs[q].pc # "new" => Earlier(runs[q].started, now)
          /\ LET backup_dir == Timestamp(now)
             IN  /\ runs' = [runs EXCEPT ![r] = [pc |-> "backup", started |-> now,
                                                 backup_root |-> backup_dir]]
                 /\ instances' = IF backup_dir \in DOMAIN instances THEN instances
                                 ELSE instances @@ (backup_dir :> NoInstance)
    /\ UNCHANGED <<backupVarsOfRun, errors, restoreVars>>

\* lines 226 and 262-267: the tasks of run r write under self.backup_root
WriteFiles(r) ==
    /\ runs[r].pc = "backup"
    /\ runs' = [runs EXCEPT ![r].pc = "report"]
    /\ instances' = [instances EXCEPT ![runs[r].backup_root].files = @ \cup {r}]
    /\ UNCHANGED <<backupVarsOfRun, errors, restoreVars>>

\* lines 334-344: open(report_file, "w") replaces the report that is there
_save_backup_report(r) ==
    /\ runs[r].pc = "report"
    /\ runs' = [runs EXCEPT ![r].pc = "done"]
    /\ instances' = [instances EXCEPT ![runs[r].backup_root].report = r]
    /\ UNCHANGED <<backupVarsOfRun, errors, restoreVars>>

----------------------------------------------------------------------------
(* Initial states *)

\* the files a source tree may hold: relative directory, name, content
FileUniverse ==
    {[dir |-> "",           name |-> "Bookmarks",        content |-> "b1"],
     [dir |-> "Cache",      name |-> "Bookmarks",        content |-> "b2"],
     [dir |-> "",           name |-> "Bookmarks.lock",   content |-> "b3"],
     [dir |-> "Extensions", name |-> "a.js",             content |-> "b4"],
     [dir |-> "",           name |-> "MyExtensions.txt", content |-> "b5"],
     [dir |-> "",           name |-> "places.sqlite",    content |-> "b6"]}

\* os.walk lists a tree in one order: here by relative path
WalkOrder ==
    <<[dir |-> "",           name |-> "Bookmarks",        content |-> "b1"],
      [dir |-> "",           name |-> "Bookmarks.lock",   content |-> "b3"],
      [dir |-> "",           name |-> "MyExtensions.txt", content |-> "b5"],
      [dir |-> "",           name |-> "places.sqlite",    content |-> "b6"],
      [dir |-> "Cache",      name |-> "Bookmarks",        content |-> "b2"],
      [dir |-> "Extensions", name |-> "a.js",             content |-> "b4"]>>

\* BrowserRestore.__init__, lines 14-17, and the locals of its run
InitRestoreProgram ==
    /\ restore_pc = "start"
    /\ source_backup = "None"
    /\ browsers_to_restore = {}
    /\ restore_paths = <<>>
    /\ restore_futures = <<>>
    /\ restore_next = 1
    /\ restore_task = [b \in Browsers |-> NoTask]
    /\ restore_results = <<>>
    /\ restore_returned = "running"

\* the locals of run() and of the tasks before run() is called, the empty
\* instance directory of _create_backup_dir, a restore program not yet run
InitProgram(listing) ==
    /\ backups = listing
    /\ dst = {}
    /\ dst_dirs = {}
    /\ installed = {}
    /\ InitRestoreProgram
    /\ browser_paths = <<>>
    /\ futures = <<>>
    /\ next_future = 1
    /\ task = [b \in Browsers |-> NoTask]
    /\ results = <<>>
    /\ sweep = 1
    /\ report = [written |-> FALSE, backup_location |-> "", results |-> <<>>]
    /\ returned = "running"
    /\ selLog = {}
    /\ walked = {}
    /\ copies = {}
    /\ errors = {}
    /\ runs = [r \in 1..MaxRuns |-> NewRun]
    /\ instances = <<>>

\* an instance a run of more than thirty days ago left
OldEntry ==
    [name |-> "20260901_120000", is_dir |-> TRUE, present |-> TRUE,
     age |-> default_retention_days * 24 * 60 * 60 + 1]

\* the state after BrowserBackup() and select_backup_options(), before run()
InitRun(listing) ==
    /\ pc = "start"
    /\ config_file = FileOf(config)
    /\ InitProgram(listing)

\* option sets select_backup_options and the configuration file give: none,
\* one category alone, all of them
OptionChoices ==
    {[c \in Categories |-> c \in S] :
        S \in {{}, {"bookmarks"}, {"extensions"}, {"cookies"}, Categories}}

\* the excluded_files lists a configuration gives: the default one, another
ExcludedChoices == {default_excluded_files, {"sqlite", "chromium"}}

RootsOf(b) == {LinuxTable[b][i] : i \in 1..Len(LinuxTable[b])}

RECURSIVE SubsetsUpTo(_, _)
\* the subsets of S of at most n elements
SubsetsUpTo(S, n) ==
    IF n = 0 THEN {{}}
    ELSE LET smaller == SubsetsUpTo(S, n - 1)
         IN  smaller \cup {T \cup {x} : T \in smaller, x \in S}

\* The copy-engine specification: one application is enabled, its source
\* trees hold up to MaxFiles files of the universe; its candidate directories
\* all exist, or only those that hold a file; the backup root holds this
\* run's instance only
InitCopy ==
    \E b \in Browsers, opts \in OptionChoices, verify \in BOOLEAN,
       excluded \in ExcludedChoices, empty_dirs \in BOOLEAN :
       \E placed \in SubsetsUpTo(RootsOf(b) \X FileUniverse, MaxFiles) :
          /\ config = [max_workers |-> default_max_workers,
                       verify_copies |-> verify,
                       retention_days |-> default_retention_days,
                       excluded_files |-> excluded,
                       browsers |-> [x \in Browsers \ {"operagx"} |-> x = b]
                                    @@ (IF b = "operagx" THEN <<>>
                                        ELSE ("operagx" :> FALSE)),
                       backup_options |-> opts]
          /\ disk = [system |-> "Linux",
                     exists |-> IF empty_dirs THEN AllRoots
                                    ELSE {p[1] : p \in placed},
                     files |-> [r \in AllRoots |->
                                   FilterSeq(WalkOrder,
                                             {f \in FileUniverse : <<r, f>> \in placed})]]
          /\ InitRun(<<OwnEntry>>)

\* the file of Opera GX's own settings
GXSettings == [dir |-> "", name |-> "GX Settings", content |-> "g1"]

\* option sets for the tree specifications: none, one category, all
TreeOptions ==
    {[c \in Categories |-> c \in S] :
        S \in {{}, {"bookmarks"}, {"preferences"}, Categories}}

\* fields a configuration file may hold besides the ones the program reads:
\* none, one at the top level, an application the tables lack, a category
\* the table of patterns lacks (select_backup_options may set it either way)
NoField == [top |-> <<>>, browsers |-> <<>>, backup_options |-> <<>>]

FieldChoices ==
    {[NoField EXCEPT !.top = ("theme" :> "dark")]}
    \cup {[NoField EXCEPT !.browsers = ("safari" :> v)] : v \in BOOLEAN}
    \cup {[NoField EXCEPT !.backup_options = ("sessions" :> v)] : v \in BOOLEAN}

\* chrome with a tree of three files, one of them a lock file, and operagx
\* with its settings file; firefox is disabled; the configuration holds the
\* fields of `extra` besides its own
InitTreeWith(extra) ==
    \E opts \in TreeOptions :
       /\ config = [max_workers |-> default_max_workers,
                    verify_copies |-> TRUE,
                    retention_days |-> default_retention_days,
                    excluded_files |-> default_excluded_files,
                    browsers |-> [x \in Browsers |-> x # "firefox"] @@ extra.browsers,
                    backup_options |-> opts @@ extra.backup_options]
                   @@ extra.top
       /\ disk = [system |-> "Linux",
                  exists |-> {LinuxTable["chrome"][1], LinuxTable["operagx"][1]},
                  files |-> [r \in AllRoots |->
                                IF r = LinuxTable["chrome"][1]
                                THEN <<WalkOrder[1], WalkOrder[2], WalkOrder[4]>>
                                ELSE IF r = LinuxTable["operagx"][1]
                                THEN <<GXSettings>>
                                ELSE <<>>]]
       /\ InitRun(<<OwnEntry>>)

\* The tree specification: a configuration of the program's own fields
InitTree == InitTreeWith(NoField)

\* The fields specification: the same trees, with one more field in the file
InitFields == \E extra \in FieldChoices : InitTreeWith(extra)

\* The scheduler specification: any set of enabled applications, a pool of up
\* to MaxWorkers workers, one file in each existing source directory, an
\* older instance beside this run's in the backup root
InitSched ==
    /\ \E enabled \in SUBSET Browsers, workers \in 1..MaxWorkers, days \in {0, default_retention_days} :
          config = [max_workers |-> workers,
                    verify_copies |-> TRUE,
                    retention_days |-> days,
                    excluded_files |-> default_excluded_files,
                    browsers |-> [x \in Browsers \ {"operagx"} |-> x \in enabled]
                                 @@ (IF "operagx" \in enabled THEN <<>>
                                     ELSE ("operagx" :> FALSE)),
                    backup_options |-> default_backup_options]
    /\ \E missing \in {{}, {LinuxTable["firefox"][1]}} :
          disk = [system |-> "Linux",
                  exists |-> AllRoots \ missing,
                  files |-> [r \in AllRoots |->
                               IF r \in missing THEN <<>>
                               ELSE IF r = LinuxTable["chrome"][2]
                               THEN <<WalkOrder[2]>>
                               ELSE IF r = LinuxTable["firefox"][1]
                               THEN <<WalkOrder[4]>>
                               ELSE <<WalkOrder[1]>>]]
    /\ InitRun(<<OldEntry, OwnEntry>>)

\* the retention periods a configuration sets: none, a day, the default
RetentionChoices == {0, 1, default_retention_days}

\* what the backup root holds beside this run's instance: a directory just
\* younger than the period, one of exactly that age, one just older; a plain
\* file older than the period
EntryKinds(days) ==
    LET threshold == days * 24 * 60 * 60
    IN  {[is_dir |-> TRUE, age |-> a] :
            a \in {threshold - 1, threshold, threshold + 1} \cap Nat}
        \cup {[is_dir |-> FALSE, age |-> threshold + 1]}

\* the name a run of an earlier day gave its instance
EntryName(i) == "2026100" \o ToString(i) \o "_120000"

\* backup_root.iterdir() lists in no particular order: this run's instance at
\* any position among the others
ListingOf(kinds, own_pos) ==
    [i \in 1..(Len(kinds) + 1) |->
        IF i = own_pos THEN OwnEntry
        ELSE LET k == IF i < own_pos THEN i ELSE i - 1
             IN  [name |-> EntryName(k), is_dir |-> kinds[k].is_dir,
                  present |-> TRUE, age |-> kinds[k].age]]

\* The retention specification: one application with one file is backed up;
\* the backup root holds up to MaxEntries entries beside this run's instance
InitSweep ==
    /\ \E days \in RetentionChoices :
          config = [max_workers |-> default_max_workers,
                    verify_copies |-> TRUE,
                    retention_days |-> days,
                    excluded_files |-> default_excluded_files,
                    browsers |-> [x \in Browsers |-> x = "firefox"],
                    backup_options |-> default_backup_options]
    /\ disk = [system |-> "Linux",
               exists |-> RootsOf("firefox"),
               files |-> [r \in AllRoots |->
                            IF r \in RootsOf("firefox") THEN <<WalkOrder[4]>>
                            ELSE <<>>]]
    /\ \E n \in 0..MaxEntries :
          \E kinds \in [1..n -> EntryKinds(config.retention_days)],
             own_pos \in 1..(n + 1) :
             InitRun(ListingOf(kinds, own_pos))

\* the first directory the platform's table names for the application
ProfileDir(system, b) ==
    IF system = "Windows" THEN WindowsTable[b][1] ELSE LinuxTable[b][1]

\* The round-trip specification: on Windows or on Linux, chrome and firefox
\* are backed up, with every category enabled or none, from a chrome profile
\* of two files and a firefox profile of one; the restore program runs after
\* the backup program has ended
InitRestore ==
    /\ \E opts \in {default_backup_options, [c \in Categories |-> FALSE]} :
          config = [max_workers |-> default_max_workers,
                    verify_copies |-> TRUE,
                    retention_days |-> default_retention_days,
                    excluded_files |-> default_excluded_files,
                    browsers |-> [x \in Browsers |-> x # "operagx"],
                    backup_options |-> opts]
    /\ \E system \in {"Windows", "Linux"} :
          disk = [system |-> system,
                  exists |-> {ProfileDir(system, "chrome"),
                              ProfileDir(system, "firefox")},
                  files |-> [r \in AllRoots \cup WindowsRoots |->
                               IF r = ProfileDir(system, "chrome")
                               THEN <<WalkOrder[1], WalkOrder[5]>>
                               ELSE IF r = ProfileDir(system, "firefox")
                               THEN <<WalkOrder[4]>>
                               ELSE <<>>]]
    /\ InitRun(<<OwnEntry>>)

\* what a configuration file sets an option to when it holds it
FileValues(browsers, backup_options) ==
    [max_workers    |-> 2,
     verify_copies  |-> FALSE,
     retention_days |-> 7,
     excluded_files |-> {"tmp"},
     browsers       |-> browsers,
     backup_options |-> backup_options]

\* the mappings a file gives for browsers: an empty one, one entry, two
BrowserMaps ==
    {<<>>, [chrome |-> FALSE], [chrome |-> FALSE, operagx |-> TRUE]}

\* the mappings a file gives for backup_options: one entry, two, all of them
OptionMaps ==
    {[bookmarks |-> TRUE], [bookmarks |-> FALSE, history |-> TRUE],
     [c \in Categories |-> FALSE]}

\* the JSON objects a well-formed file holds: any of the six options present
\* or not
ConfigObjects ==
    {[k \in keys |-> FileValues(bro, opt)[k]] :
        keys \in SUBSET DOMAIN FileValues(<<>>, <<>>),
        bro \in BrowserMaps, opt \in OptionMaps}

ConfigFiles ==
    {[kind |-> "absent"], [kind |-> "malformed"]}
    \cup {[kind |-> "json", value |-> v] : v \in ConfigObjects}

\* The construction specification: the program starts with any of the
\* configuration files, on a machine with no profile directory
InitConfig ==
    /\ config = NoConfig
    /\ config_file \in ConfigFiles
    /\ pc = "construct"
    /\ disk = [system |-> "Linux", exists |-> {}, files |-> [r \in AllRoots |-> <<>>]]
    /\ InitProgram(<<>>)

\* The instances specification: MaxRuns runs of the program are started one
\* after the other and go on side by side
InitRuns ==
    /\ config = NoConfig
    /\ config_file = [kind |-> "absent"]
    /\ pc = "construct"
    /\ disk = [system |-> "Linux", exists |-> {}, files |-> [r \in AllRoots |-> <<>>]]
    /\ InitProgram(<<>>)

NextRuns ==
    \/ \E r \in 1..MaxRuns : _create_backup_dir(r)
    \/ \E r \in 1..MaxRuns : WriteFiles(r)
    \/ \E r \in 1..MaxRuns : _save_backup_report(r)

SpecRuns == InitRuns /\ [][NextRuns]_vars

Next ==
    \/ RunStart
    \/ \E b \in Browsers : TaskStart(b)
    \/ \E b \in Browsers : TaskEnterRoot(b)
    \/ \E b \in Browsers : TaskCopyFile(b)
    \/ \E b \in Browsers : TaskFault(b)
    \/ RunCollect
    \/ RunCleanup
    \/ RunReport

\* the scheduler specification
Spec == InitSched /\ [][Next]_vars

\* the copy-engine specification
SpecCopy == InitCopy /\ [][Next]_vars

\* the retention specification
SpecSweep == InitSweep /\ [][Next]_vars

\* a step of the construction of the backup program
SpecTree == InitTree /\ [][Next]_vars

SpecFields == InitFields /\ [][Next]_vars

NextConfig ==
    \/ Construct
    \/ select_backup_options

\* the construction specification
SpecConfig == InitConfig /\ [][NextConfig]_vars

\* a step of the backup program or of the restore program
NextRoundTrip ==
    \/ Next
    \/ RestoreStart
    \/ \E b \in Browsers : RestoreTaskStart(b)
    \/ \E b \in Browsers : RestoreCopyFile(b)
    \/ \E b \in Browsers : RestoreTaskFault(b)
    \/ RestoreCollect
    \/ RestoreReturn

\* the round-trip specification
SpecRestore == InitRestore /\ [][NextRoundTrip]_vars

----------------------------------------------------------------------------
(* What the claims speak of, stated without the operators of the code *)

\* x occurs in s at some position
OccursIn(x, s) ==
    \E i \in 1..Len(s) :
       /\ i + Len(x) - 1 <= Len(s)
       /\ SubSeq(s, i, i + Len(x) - 1) = x

\* the file's name contains a configured excluded substring
NameHasExcluded(name) == \E x \in config.excluded_files : OccursIn(x, name)

\* the file's relative path contains a configured excluded substring
PathHasExcluded(f) ==
    \E x \in config.excluded_files : OccursIn(x, JoinRel(f.dir, f.name))

NoCategoryEnabled == \A c \in DOMAIN config.backup_options : ~config.backup_options[c]

\* the source files of the task of browser b, in the directories it was given
SourceFiles(b) ==
    UNION {{SrcId(b, browser_paths[b][i], disk.files[browser_paths[b][i]][k]) :
               k \in 1..Len(disk.files[browser_paths[b][i]])} :
           i \in 1..Len(browser_paths[b])}

\* a file the copy loop has to copy: not skipped at line 255, nor at line 260
Qualifies(id) ==
    /\ ~NameHasExcluded(id.name)
    /\ _should_backup_file(JoinRel(id.dir, id.name), id.browser, config.backup_options)

Attempted == {c.src : c \in copies}

\* dest.mkdir of line 235 failed in the task of browser b, which ended it
DestMkdirFailed(b) ==
    \E e \in errors :
       /\ e.at = "backup_browser"
       /\ e.browser = b
       /\ \E r \in RootsOf(b) : e.file = Basename(r)

Dispatched == {b \in Browsers : task[b].st # "none"}

----------------------------------------------------------------------------
(* The claims *)

\* C1: a task that ran to its `return` with every destination directory
\* created has called the copy for every qualifying file of every source root,
\* whichever of the copies raised.
C1_PerFileIsolation ==
    \A b \in Dispatched :
       (task[b].st = "returned" /\ ~DestMkdirFailed(b)) =>
          \A id \in SourceFiles(b) : id \in Attempted \/ ~Qualifies(id)

\* C1's case: a copy raised in the first source root, and a file of a later
\* root was copied after it.
C1_Witness ==
    \E b \in Dispatched : \E c1, c2 \in copies :
       /\ task[b].st = "returned"
       /\ c1.src.browser = b /\ c2.src.browser = b
       /\ c1.outcome = "raise" /\ c2.outcome = "ok"
       /\ c1.src.source = LinuxTable[b][1]
       /\ c2.src.source # c1.src.source

\* the destination file of a source file, if the instance holds one
DstOf(id) == {e \in dst : e.path = DstPath(id.browser, id.source, id.dir, id.name)}

\* a per-file error record of the log names the browser and the file
ReportedAsFileError(id) ==
    \E e \in errors :
       /\ e.at \in {"copy", "verify_copy"}
       /\ e.browser = id.browser
       /\ e.file = id.name

\* C2: with verification enabled, a copy whose destination content differs
\* from its source's is reported as a per-file error, and the task that ran
\* to its `return` has still attempted every other qualifying file.
C2_MismatchReported ==
    config.verify_copies =>
       \A c \in copies :
          c.outcome = "corrupt" =>
             /\ ReportedAsFileError(c.src)
             /\ (task[c.src.browser].st = "returned" /\ ~DestMkdirFailed(c.src.browser)) =>
                   \A id \in SourceFiles(c.src.browser) : Qualifies(id) => id \in Attempted

\* the copy of line 267 returned and, when verification is enabled, the two
\* files were read back with equal content
CopiedSuccessfully(c) ==
    /\ c.outcome # "raise"
    /\ config.verify_copies => c.outcome = "ok"

\* C3: the value backup_browser returns is true iff at least one file of the
\* task was copied successfully.
C3_SuccessIffOneCopied ==
    \A b \in Dispatched :
       task[b].st = "returned" =>
          (task[b].success <=>
              \E c \in copies : c.src.browser = b /\ CopiedSuccessfully(c))

\* C3's case: a returned task with one good copy among failed ones, under
\* verification.
C3_Witness ==
    \E b \in Dispatched : \E c1, c2 \in copies :
       /\ task[b].st = "returned" /\ task[b].success
       /\ config.verify_copies
       /\ c1.src.browser = b /\ c2.src.browser = b
       /\ c1.outcome = "corrupt" /\ c2.outcome = "ok"

\* C4: no destination file exists for a source file whose name contains an
\* excluded substring.
C4_ExcludedNameNeverCopied ==
    \A b \in Dispatched :
       \A id \in SourceFiles(b) : NameHasExcluded(id.name) => DstOf(id) = {}

\* C4's case: under the fail-open selection the loop has passed a file whose
\* name is excluded, and copied another file of the same task.
C4_Witness ==
    /\ NoCategoryEnabled
    /\ \E id \in walked :
          /\ NameHasExcluded(id.name)
          /\ task[id.browser].st = "returned"
          /\ \E c \in copies : c.src.browser = id.browser /\ c.outcome = "ok"

\* C5: no destination file exists for a source file whose relative path
\* contains an excluded substring.
C5_ExcludedPathNeverCopied ==
    \A b \in Dispatched :
       \A id \in SourceFiles(b) : PathHasExcluded(id) => DstOf(id) = {}

\* C6: with every category disabled, every call of _should_backup_file
\* returned true.
C6_FailOpen ==
    NoCategoryEnabled => \A e \in selLog : e.result

\* C6's case: with every category disabled the selector was asked about a
\* file that matches no pattern of the application's family, and said yes.
C6_Witness ==
    /\ NoCategoryEnabled
    /\ \E e \in selLog :
          /\ e.file_name = "places.sqlite"
          /\ e.browser_type = "chrome"
          /\ e.result

StartsWith(s, prefix) ==
    /\ Len(s) >= Len(prefix)
    /\ SubSeq(s, 1, Len(prefix)) = prefix

\* the file lies under a directory named d
LocatedUnder(d, path) ==
    \/ StartsWith(path, d \o "/")
    \/ Contains("/" \o d \o "/", path)

\* the selection rule as the specification words it: the path contains a
\* plain pattern of an enabled category, or lies under the directory of a
\* wildcard pattern of one
IntendedInclude(path, browser_type) ==
    LET group == _get_browser_data_patterns[browser_family(browser_type)]
    IN  \E c \in Categories :
           /\ config.backup_options[c]
           /\ \E i \in 1..Len(group[c]) :
                 LET pattern == group[c][i]
                 IN  IF EndsWith(pattern, "/*")
                     THEN LocatedUnder(SubSeq(pattern, 1, Len(pattern) - 2), path)
                     ELSE Contains(pattern, path)

\* C7: with a category enabled, _should_backup_file returned true iff the
\* path contains a plain pattern of an enabled category or lies under the
\* directory of a wildcard pattern of one.
C7_SelectorIffPattern ==
    ~NoCategoryEnabled =>
       \A e \in selLog : e.result <=> IntendedInclude(e.file_name, e.browser_type)

\* C8: the results mapping of the written report has an entry for each
\* dispatched task and for no other application.
C8_ReportComplete ==
    report.written => DOMAIN report.results = Dispatched

\* C8's case: a report written after one task returned true, one returned
\* false and one raised.
C8_Witness ==
    /\ report.written
    /\ \E b1, b2, b3 \in Dispatched :
          /\ task[b1].st = "returned" /\ task[b1].success
          /\ task[b2].st = "returned" /\ ~task[b2].success
          /\ task[b3].st = "raised"

\* the sweep was entered: its loop moved on, or its handler logged
SweepRan ==
    \/ sweep > 1
    \/ \E e \in errors : e.at = "cleanup_old_backups"

\* the report step was taken: the report is written, or its failure is logged
ReportStepTaken ==
    \/ report.written
    \/ \E e \in errors : e.at = "run" /\ e.file = "Backup process failed"

\* C9: a task that raised is recorded as false, every other recorded result
\* is the value its task returned, and a run with a raised task still goes
\* through the sweep and the report step.
C9_WorkerFaultIsolated ==
    /\ \A b \in DOMAIN results :
          /\ task[b].st = "raised" => results[b] = FALSE
          /\ task[b].st = "returned" => results[b] = task[b].success
    /\ (pc = "done" /\ \E b \in Dispatched : task[b].st = "raised") =>
          /\ DOMAIN results = Dispatched
          /\ SweepRan
          /\ ReportStepTaken

\* C9's case: the run is over, one task raised after it had copied a file,
\* a sibling returned true and is recorded so, and the report is written.
C9_Witness ==
    /\ pc = "done"
    /\ report.written
    /\ \E b1, b2 \in Dispatched :
          /\ task[b1].st = "raised" /\ task[b1].success
          /\ results[b1] = FALSE
          /\ task[b2].st = "returned" /\ task[b2].success
          /\ results[b2] = TRUE

\* C10: when the report is written, and from the sweep on, every dispatched
\* task is done and has its result recorded.
C10_JoinBeforeReport ==
    (report.written \/ pc \in {"cleanup", "report"}) =>
       \A b \in Dispatched : IsDone(task[b]) /\ b \in DOMAIN results

\* C10's case: a report written by a run of three tasks on a single worker,
\* so that tasks were pending while the main thread waited.
C10_Witness ==
    /\ report.written
    /\ config.max_workers = 1
    /\ Cardinality(Dispatched) = 3
    /\ \A b \in Dispatched : task[b].st = "returned"

\* a step of the sweep: its loop moved on, it removed an entry, or it logged
SweepStep ==
    \/ sweep' # sweep
    \/ backups' # backups
    \/ \E e \in errors' \ errors : e.at = "cleanup_old_backups"

\* a step of a backup task's copy loop: it reached a file, called the copy,
\* wrote to the instance or made a directory in it
CopyStep ==
    \/ walked' # walked
    \/ copies' # copies
    \/ dst_dirs' \ dst_dirs # {}
    \/ dst' \ dst # {}

\* C11: every step of the sweep is taken when every dispatched task is done,
\* and no task takes a step of its copy loop once the sweep has begun.
C11_SweepAfterJoin ==
    [][/\ SweepStep => \A b \in Dispatched : IsDone(task[b])
       /\ CopyStep => (pc = "collect" /\ ~SweepRan)]_vars

\* C11's case: the sweep removed an expired instance after two tasks had
\* copied files in parallel.
C11_Witness ==
    /\ \E i \in 1..Len(backups) : ~backups[i].present
    /\ config.max_workers >= 2
    /\ \E b1, b2 \in Dispatched :
          /\ b1 # b2
          /\ \E c1, c2 \in copies : c1.src.browser = b1 /\ c2.src.browser = b2

\* the retention period in seconds, as the specification gives it
Threshold == config.retention_days * 86400

\* the sweep went through the whole listing and no deletion failed
SweepCompleted ==
    /\ pc \in {"report", "done"}
    /\ returned # "None"
    /\ ~\E e \in errors : e.at = "cleanup_old_backups"

\* C12: the sweep removes an entry only at the step that examines it, and at
\* that step it removes the entry, or fails to and logs it, iff the entry is
\* a subdirectory whose age exceeds the retention period: one of exactly that
\* age, or younger, stays.
C12_RemovedIffOlder ==
    [][\A i \in 1..Len(backups) :
          LET removed == backups[i].present /\ ~backups'[i].present
              examined == sweep = i /\ SweepStep
              failed == \E e \in errors' \ errors :
                           e.at = "cleanup_old_backups" /\ e.file = backups[i].name
          IN  /\ removed => examined
              /\ examined =>
                    /\ (removed \/ failed) <=>
                          (backups[i].is_dir /\ backups[i].age > Threshold)
                    /\ ~(removed /\ failed)]_vars

\* C12's case: a sweep over a directory of exactly the retention period's age,
\* which it kept, and one a second older, which it removed.
C12_Witness ==
    /\ SweepCompleted
    /\ Threshold > 0
    /\ \E i, j \in 1..Len(backups) :
          /\ backups[i].is_dir /\ backups[i].age = Threshold /\ backups[i].present
          /\ backups[j].is_dir /\ backups[j].age = Threshold + 1 /\ ~backups[j].present

\* the deletion of the entry failed and the log says so
DeletionFailureLogged(entry) ==
    \E e \in errors : e.at = "cleanup_old_backups" /\ e.file = entry.name

\* C13: after the sweep, every subdirectory older than the retention period
\* is gone, except those whose deletion failed and was logged.
C13_SweepFailureIsolated ==
    (pc \in {"report", "done"} /\ returned # "None") =>
       \A i \in 1..Len(backups) :
          (backups[i].is_dir /\ backups[i].age > Threshold /\ backups[i].present)
             => DeletionFailureLogged(backups[i])

\* the content the source file had when the backup ran
SourceContent(id) ==
    LET files == disk.files[id.source]
    IN  files[CHOOSE k \in 1..Len(files) :
                 files[k].dir = id.dir /\ files[k].name = id.name].content

\* the restore task of browser b went through its loop with no copy failing
RestoredCleanly(b) ==
    /\ b \in DOMAIN restore_paths
    /\ restore_task[b].st = "returned"
    /\ restore_task[b].success
    /\ ~\E e \in errors : e.at = "restore_copy" /\ e.browser = b

\* C14: after the backup of an application and a restore of it into the empty
\* live directory in which no copy failed, every source file the backup
\* copied is in the live directory at the relative path it had in the source
\* directory, with the content it had.
C14_RoundTrip ==
    \A b \in Browsers :
       (task[b].st = "returned" /\ RestoredCleanly(b)) =>
          \A c \in copies :
             (c.src.browser = b /\ c.outcome = "ok") =>
                [path |-> restore_paths[b] \o "/" \o JoinRel(c.src.dir, c.src.name),
                 content |-> SourceContent(c.src)] \in installed

\* the log holds the failed copy of the backup file by the restore task
RestoreCopyRaised(b, e) ==
    \E x \in errors : x.at = "restore_copy" /\ x.browser = b /\ x.file = e.path

\* restore_browser left its loop through the outer handler
OuterRestoreFault(b) ==
    \E x \in errors : x.at = "restore_browser" /\ x.browser = b

\* C18: when restore_browser has returned without an exception outside its
\* copy loop, every file of the application's backup subtree whose copy did
\* not raise is in the destination at the mirrored relative path with the
\* backup's content, whatever its name or directory.
C18_RestoreIsolation ==
    \A b \in Browsers :
       (restore_task[b].st = "returned" /\ ~OuterRestoreFault(b)) =>
          \A e \in dst :
             (StartsWith(e.path, b \o "/") /\ ~RestoreCopyRaised(b, e)) =>
                \E x \in installed :
                   /\ x.content = e.content
                   /\ x.path = restore_paths[b] \o SubSeq(e.path, Len(b) + 1, Len(e.path))

\* C18's case: a restore task returned after the copy of one file raised, and
\* a file under a directory named Cache, which the exclusion list names, was
\* restored by the same task.
C18_Witness ==
    \E b \in Browsers : \E e1, e2 \in dst :
       /\ restore_task[b].st = "returned" /\ ~OuterRestoreFault(b)
       /\ StartsWith(e1.path, b \o "/") /\ StartsWith(e2.path, b \o "/")
       /\ RestoreCopyRaised(b, e1)
       /\ ~RestoreCopyRaised(b, e2)
       /\ OccursIn("Cache", e2.path)
       /\ \E x \in installed : x.content = e2.content

\* C19: when the restore run has ended after its selection, the results
\* mapping has an entry for each selected application, and each of them had
\* a task.
C19_OneTaskPerSelected ==
    (restore_pc = "done" /\ browsers_to_restore # {}) =>
       /\ DOMAIN restore_results = browsers_to_restore
       /\ \A b \in browsers_to_restore : restore_task[b].st # "none"

\* C15: the dispatched tasks are of pairwise distinct applications, and every
\* file a step writes into the instance is written by the one task that took
\* the step, under the directory of its own application and of no other.
C15_DestinationsPartitioned ==
    [][/\ \A i, j \in 1..Len(futures') : futures'[i] = futures'[j] => i = j
       /\ \A e \in dst' \ dst :
             \E b \in Dispatched :
                /\ task'[b] # task[b]
                /\ StartsWith(e.path, b \o "/")
                /\ \A o \in Dispatched \ {b} :
                      /\ task'[o] = task[o]
                      /\ ~StartsWith(e.path, o \o "/")]_vars

\* C15's case: two workers; the task of chrome, started first, is still
\* running after it wrote a file, and the task of firefox has written one
\* in the meantime.
C15_Witness ==
    /\ config.max_workers >= 2
    /\ task["chrome"].st = "running"
    /\ task["firefox"].st # "none"
    /\ \E e1, e2 \in dst :
          /\ StartsWith(e1.path, "chrome/")
          /\ StartsWith(e2.path, "firefox/")

\* C16: when the results of a finished run hold a false entry, run() does not
\* return the value of total success and main does not print its message.
C16_PartialSuccessReported ==
    (pc = "done" /\ \E b \in DOMAIN results : ~results[b]) =>
       /\ returned # "True"
       /\ MainMessage(returned) # "Backup completed successfully!"

\* the configuration sets the application to false
DisabledInConfig(b) == b \in DOMAIN config.browsers /\ ~config.browsers[b]

\* C17: once get_browser_paths has returned, every directory it lists for an
\* application is one the platform's table names for it, exists, and contains
\* no excluded substring; the application is not disabled, and a disabled
\* application has no key.
C17_PathsFiltered ==
    pc # "start" =>
       /\ \A b \in DOMAIN browser_paths :
             /\ ~DisabledInConfig(b)
             /\ \A i \in 1..Len(browser_paths[b]) :
                   /\ browser_paths[b][i] \in RootsOf(b)
                   /\ browser_paths[b][i] \in disk.exists
                   /\ \A x \in config.excluded_files : ~OccursIn(x, browser_paths[b][i])
       /\ \A b \in Browsers : DisabledInConfig(b) => b \notin DOMAIN browser_paths

\* C17's case: chrome is enabled, both its directories exist and the
\* exclusion list names one of them; the result lists the other one alone,
\* and has no key for the disabled firefox.
C17_Witness ==
    /\ pc # "start"
    /\ "chromium" \in config.excluded_files
    /\ RootsOf("chrome") \subseteq disk.exists
    /\ "chrome" \in DOMAIN browser_paths
    /\ browser_paths["chrome"] = <<LinuxTable["chrome"][1]>>
    /\ DisabledInConfig("firefox")
    /\ "firefox" \notin DOMAIN browser_paths

\* the configuration file is a JSON object and load_config has read it
LoadedWellFormed == pc = "select" /\ config_file.kind = "json"

\* C20: after load_config has read a well-formed file, every option the file
\* omits has its default value; an application the file's browsers mapping
\* omits counts as enabled or not as by default, and a category the file's
\* backup_options mapping omits is enabled as by default.
C20_DefaultsForOmitted ==
    LoadedWellFormed =>
       LET file == config_file.value
       IN  /\ \A k \in DOMAIN default_config \ DOMAIN file :
                  config[k] = default_config[k]
           /\ "browsers" \in DOMAIN file =>
                 \A b \in DOMAIN default_config.browsers \ DOMAIN file.browsers :
                    BrowserEnabled(config, b) = default_config.browsers[b]
           /\ "backup_options" \in DOMAIN file =>
                 \A c \in Categories \ DOMAIN file.backup_options :
                    OptionEnabled(config, c) = default_config.backup_options[c]

\* C25: once the sweep of a run is over, the run's own instance directory is
\* still in the backup root, and a run that has ended after dispatching its
\* tasks has written its report.
C25_OwnInstanceKept ==
    /\ pc \in {"report", "done"} => (returned = "None" \/ InstancePresent)
    /\ (pc = "done" /\ returned # "None") => report.written

\* C27: the results mapping of the written report gives each dispatched
\* application the outcome of its own task alone: true iff the task returned
\* and one of its own copies succeeded, whatever the other tasks did and in
\* whatever order the tasks ran and ended.
C27_ReportByOwnOutcome ==
    report.written =>
       \A b \in Dispatched :
          /\ b \in DOMAIN report.results
          /\ report.results[b] <=>
                /\ task[b].st = "returned"
                /\ \E c \in copies : c.src.browser = b /\ CopiedSuccessfully(c)

\* C27's case: a report written by a run of three tasks on two workers, with
\* a true and a false entry.
C27_Witness ==
    /\ report.written
    /\ config.max_workers = 2
    /\ Cardinality(Dispatched) = 3
    /\ \E b1, b2 \in Dispatched : report.results[b1] /\ ~report.results[b2]

\* none of the directories the platform's table names for b exists
NoDirectoryOf(b) == RootsOf(b) \cap disk.exists = {}

\* C29: once run() has got the paths, every application of the table that the
\* configuration does not disable has a task; one with no existing directory
\* copies nothing and returns false, and the written report holds it as
\* false.
C29_EmptyApplicationDispatched ==
    (pc # "start" /\ returned # "None") =>
       \A b \in Browsers :
          ~DisabledInConfig(b) =>
             /\ b \in Dispatched
             /\ NoDirectoryOf(b) =>
                   /\ ~\E c \in copies : c.src.browser = b
                   /\ IsDone(task[b]) => (task[b].st = "returned" /\ ~task[b].success)
                   /\ report.written =>
                         (b \in DOMAIN report.results /\ ~report.results[b])

\* C29's case: the report is written; firefox is enabled and its directory
\* is missing, its entry is false, and another application's entry is true.
C29_Witness ==
    /\ report.written
    /\ ~DisabledInConfig("firefox")
    /\ NoDirectoryOf("firefox")
    /\ "firefox" \in DOMAIN report.results
    /\ ~report.results["firefox"]
    /\ \E b \in DOMAIN report.results : report.results[b]

\* C30: with verification enabled, every file the instance holds for a task
\* that has returned has the content of its source file.
C30_NoUnverifiedFileLeft ==
    config.verify_copies =>
       \A b \in Dispatched :
          task[b].st = "returned" =>
             \A id \in SourceFiles(b) :
                \A e \in DstOf(id) : e.content = SourceContent(id)

\* C22: when the configuration file holds text that cannot be loaded,
\* load_config sets the built-in defaults and the constructor completes: the
\* program goes on to the category menu with the defaults, and from there to
\* the run with every option at its default but the categories chosen at the
\* menu.
C22_MalformedFallsBack ==
    (config_file.kind = "malformed" /\ pc # "construct") =>
       /\ returned = "running"
       /\ pc = "select" => config = default_config
       /\ pc = "start" =>
             /\ DOMAIN config = DOMAIN default_config
             /\ \A k \in DOMAIN default_config \ {"backup_options"} :
                   config[k] = default_config[k]
             /\ DOMAIN config.backup_options = Categories

\* C22's case: the file could not be loaded, which was logged, and the
\* program has reached the start of the run with the default retention
\* period.
C22_Witness ==
    /\ config_file.kind = "malformed"
    /\ pc = "start"
    /\ \E e \in errors : e.at = "load_config"
    /\ config.retention_days = default_retention_days

\* C28: restore_browser, once it has returned, has returned true iff it did
\* not leave through its outer handler, however many of its file copies
\* raised.
C28_TrueDespiteCopyFailures ==
    \A b \in Browsers :
       restore_task[b].st = "returned" =>
          (restore_task[b].success <=> ~OuterRestoreFault(b))

\* C28's case: the copy of every file of an application's backup subtree
\* raised, there are two of them, and restore_browser returned true.
C28_Witness ==
    \E b \in Browsers :
       /\ restore_task[b].st = "returned"
       /\ restore_task[b].success
       /\ Cardinality({e \in dst : StartsWith(e.path, b \o "/")}) = 2
       /\ \A e \in dst : StartsWith(e.path, b \o "/") => RestoreCopyRaised(b, e)

\* the task of b met no failure of the file system: every destination
\* directory was created and every copy it made was written and verified
NoIOFailure(b) ==
    /\ ~DestMkdirFailed(b)
    /\ \A c \in copies : c.src.browser = b => c.outcome = "ok"

\* the backup_options of the configuration without the keys that are no
\* category
RecognisedOptions ==
    [c \in DOMAIN config.backup_options \cap Categories |-> config.backup_options[c]]

\* the destination of a source file: application, name of the source
\* directory, relative path, with the content of the source
ExpectedCopy(id) ==
    [path |-> id.browser \o "/" \o Basename(id.source) \o "/"
                 \o JoinRel(id.dir, id.name),
     content |-> SourceContent(id)]

\* what the instance holds for the task of b
CopiedFor(b) == {e \in dst : StartsWith(e.path, b \o "/")}

\* what a task of b that meets no failure copies when the categories are as
\* in `options`
ExpectedFor(b, options) ==
    {ExpectedCopy(id) :
       id \in {x \in SourceFiles(b) :
                 /\ ~NameHasExcluded(x.name)
                 /\ _should_backup_file(JoinRel(x.dir, x.name), b, options)}}

\* C21: with a field in the configuration that the program does not know, a
\* task that returned without a failure of the file system has copied the
\* files it copies without the field, and its result and its entry of the
\* report are those it has without the field.
C21_UnknownFieldsIgnored ==
    \A b \in Dispatched :
       (task[b].st = "returned" /\ NoIOFailure(b)) =>
          /\ CopiedFor(b) = ExpectedFor(b, RecognisedOptions)
          /\ task[b].success <=> (ExpectedFor(b, RecognisedOptions) # {})
          /\ report.written =>
                (report.results[b] <=> (ExpectedFor(b, RecognisedOptions) # {}))

GroupIncludes(group, path) ==
    \E c \in Categories :
       /\ config.backup_options[c]
       /\ \E i \in 1..Len(_get_browser_data_patterns[group][c]) :
             LET pattern == _get_browser_data_patterns[group][c][i]
             IN  IF EndsWith(pattern, "/*")
                 THEN OccursIn(SubSeq(pattern, 1, Len(pattern) - 2), path)
                 ELSE OccursIn(pattern, path)

\* C26: for an application that has a group of its own in the table of
\* patterns, the selector answers by that group: with a category enabled, it
\* accepts a file iff a pattern of an enabled category of the application's
\* own group occurs in its path.
C26_OwnGroupUsed ==
    \A e \in selLog :
       (e.browser_type \in DOMAIN _get_browser_data_patterns /\ ~NoCategoryEnabled) =>
          (e.result <=> GroupIncludes(e.browser_type, e.file_name))

\* C24: two runs of the program never have the same instance directory: the
\* backup_root of one differs from that of the other, and an instance
\* directory holds the files and the report of one run only.
C24_InstancePerRun ==
    /\ \A r1, r2 \in DOMAIN runs :
          (r1 # r2 /\ runs[r1].pc # "new" /\ runs[r2].pc # "new") =>
             runs[r1].backup_root # runs[r2].backup_root
    /\ \A d \in DOMAIN instances :
          Cardinality(instances[d].files \cup ({instances[d].report} \ {0})) <= 1

====
